---- MODULE Spec2Model ----
(***************************************************************************)
(* Model of pyswan/oceanwaves.py: the spectral containers Spec1 (rank 1),  *)
(* Spec2 (rank 2), the parameter aggregate Spec0, the JONSWAP generator    *)
(* and the integral transforms Hm0, Tm01, Tm02, Tp and pdir.               *)
(*                                                                         *)
(* Numbers.  A float is modelled exactly as an extended rational <<n, d>>  *)
(* in lowest terms with d >= 0: d > 0 is the rational n/d, <<1, 0>> is     *)
(* +inf, <<-1, 0>> is -inf and <<0, 0>> is NaN.  Arithmetic follows the    *)
(* IEEE rules for the special values (inf - inf, 0 * inf, 0 / 0 are NaN;   *)
(* x / 0 is +-inf; every comparison with NaN is false).  Rounding and the  *)
(* sign of zero are not modelled.  A square root is kept symbolically as   *)
(* the record [rad |-> q] standing for sqrt(q).                            *)
(*                                                                         *)
(* Arrays.  A numpy array is the record [shape |-> <<..>>, data |-> <<..>>]*)
(* with the data in C (row-major) order; a 0-d result has shape << >>.     *)
(***************************************************************************)
EXTENDS Integers, Sequences, FiniteSets, TLC

\* ------------------------------------------------------------------ bounds
\* Largest number of elements of an energy array.
MaxCells == 4
\* Largest number of elements of a directional energy array the transforms
\* are applied to.
MaxCellsT == 6
\* Largest number of samples of a supplied t, x or lon axis.
MaxLen == 2
\* Frequency samples are drawn from 1..MaxF (strictly increasing axes).
MaxF == 3
\* Requested wave heights of from_jonswap are drawn from 1..MaxH.
MaxH == 2

\* ------------------------------------------------------- float arithmetic
RECURSIVE Gcd(_, _)
Gcd(a, b) == IF b = 0 THEN a ELSE Gcd(b, a % b)

AbsInt(n) == IF n < 0 THEN -n ELSE n

SignInt(n) == IF n < 0 THEN -1 ELSE IF n > 0 THEN 1 ELSE 0

\* The float n/d (d of any sign), in lowest terms; d = 0 gives inf or NaN.
Norm(n, d) ==
    IF d = 0 THEN <<SignInt(n), 0>>
    ELSE LET g == Gcd(AbsInt(n), AbsInt(d))
             s == IF d < 0 THEN -1 ELSE 1
         IN  <<(s * n) \div g, (s * d) \div g>>

Q(n) == <<n, 1>>

NaN == <<0, 0>>

PInf == <<1, 0>>

IsNaN(a) == a[1] = 0 /\ a[2] = 0

IsInf(a) == a[1] # 0 /\ a[2] = 0

IsFinite(a) == a[2] > 0

Neg(a) == <<-a[1], a[2]>>

FAbs(a) == <<AbsInt(a[1]), a[2]>>

Add(a, b) ==
    IF IsNaN(a) \/ IsNaN(b) THEN NaN
    ELSE IF IsInf(a) THEN (IF IsInf(b) /\ b[1] # a[1] THEN NaN ELSE a)
    ELSE IF IsInf(b) THEN b
    ELSE Norm(a[1] * b[2] + b[1] * a[2], a[2] * b[2])

Sub(a, b) == Add(a, Neg(b))

Mul(a, b) == Norm(a[1] * b[1], a[2] * b[2])

\* 1/a: 1/0 is +inf, 1/inf is 0.
Inv(a) ==
    IF IsNaN(a) THEN NaN
    ELSE IF IsInf(a) THEN Q(0)
    ELSE IF a[1] = 0 THEN PInf
    ELSE Norm(a[2], a[1])

Div(a, b) == Mul(a, Inv(b))

\* a <= b, a < b, a == b as floats compare: false when either is NaN.
Leq(a, b) == ~IsNaN(a) /\ ~IsNaN(b) /\ a[1] * b[2] <= b[1] * a[2]

Lt(a, b) == ~IsNaN(a) /\ ~IsNaN(b) /\ a[1] * b[2] < b[1] * a[2]

FEq(a, b) == ~IsNaN(a) /\ ~IsNaN(b) /\ a = b

\* np.sqrt(a), kept symbolically: NaN for a negative or NaN argument.
Sqrt(a) == IF IsNaN(a) \/ a[1] < 0 THEN [rad |-> NaN] ELSE [rad |-> a]

\* k * np.sqrt(a) for an integer k >= 0, which is sqrt(k*k*a).
TimesSqrt(k, a) ==
    LET r == Sqrt(a) IN [rad |-> Mul(Q(k * k), r.rad)]

\* sqrt(r.rad) <= q for a symbolic root r and a float q.
RootLeq(r, q) ==
    /\ ~IsNaN(r.rad) /\ ~IsNaN(q)
    /\ q[1] >= 0
    /\ Leq(r.rad, Mul(q, q))

\* ------------------------------------------------------------ numpy arrays
RECURSIVE Prod(_)
Prod(s) == IF s = << >> THEN 1 ELSE Head(s) * Prod(Tail(s))

\* The array of the given shape filled with v (np.zeros, np.ones, v*np.zeros).
Full(shape, v) == [shape |-> shape, data |-> [i \in 1..Prod(shape) |-> v]]

\* A 0-d result (a numpy scalar or a Python float).
Scalar(v) == [shape |-> << >>, data |-> <<v>>]

Front(s) == SubSeq(s, 1, Len(s) - 1)

LastDim(a) == a.shape[Len(a.shape)]

\* Row r (1-based) along the last axis of array a.
Row(a, r) == SubSeq(a.data, (r - 1) * LastDim(a) + 1, r * LastDim(a))

NRows(a) == Prod(Front(a.shape))

RECURSIVE SumSeq(_)
SumSeq(s) == IF s = << >> THEN Q(0) ELSE Add(Head(s), SumSeq(Tail(s)))

\* One interval of the trapezoidal rule: d * (y[i+1] + y[i]) / 2.0
TrapzTerm(y, x, i) == Div(Mul(Sub(x[i + 1], x[i]), Add(y[i + 1], y[i])), Q(2))

\* np.trapz(y, x) of one row: the sum of the intervals (0 for one sample).
TrapzRow(y, x) == SumSeq([i \in 1..(Len(x) - 1) |-> TrapzTerm(y, x, i)])

\* np.trapz(y, x, axis=-1): integrates the last axis away.
Trapz(y, x) ==
    [shape |-> Front(y.shape),
     data  |-> [r \in 1..NRows(y) |-> TrapzRow(Row(y, r), x)]]

\* A cumulative integral whose running sum drops the first interval.
RECURSIVE CumtrapzRowLate(_, _, _)
CumtrapzRowLate(y, x, k) ==
    IF k <= 2 THEN [i \in 1..k |-> Q(0)]
    ELSE LET c == CumtrapzRowLate(y, x, k - 1)
         IN  Append(c, Add(c[k - 1], TrapzTerm(y, x, k - 1)))

\* scipy.integrate.cumtrapz(y, x, initial=0) of one row: the running sum of
\* the intervals, with the initial value in front.
RECURSIVE CumtrapzRow(_, _, _)
CumtrapzRow(y, x, k) ==
    IF k = 1 THEN <<Q(0)>>
    ELSE LET c == CumtrapzRow(y, x, k - 1)
         IN  Append(c, Add(c[k - 1], TrapzTerm(y, x, k - 1)))

\* An interpolation that does not hold the last value right of the axis.
InterpNoRight(x, xp, fp) ==
    LET n == Len(xp) IN
    IF Lt(xp[n], x) \/ Lt(x, xp[1]) THEN fp[1]
    ELSE LET j == CHOOSE k \in 1..n :
                     /\ Leq(xp[k], x)
                     /\ \A m \in (k + 1)..n : ~Leq(xp[m], x)
         IN  IF j = n \/ xp[j] = x THEN fp[j]
             ELSE LET slope == Div(Sub(fp[j + 1], fp[j]), Sub(xp[j + 1], xp[j]))
                  IN  Add(Mul(slope, Sub(x, xp[j])), fp[j])

\* np.interp(x, xp, fp) for a scalar x and increasing xp: fp[last] right of
\* the axis, fp[first] left of it, fp[j] on a knot, and a linear
\* interpolation between the enclosing knots otherwise.
Interp(x, xp, fp) ==
    LET n == Len(xp) IN
    IF n = 1 THEN fp[1]
    ELSE IF Lt(xp[n], x) THEN fp[n]
    ELSE IF Lt(x, xp[1]) THEN fp[1]
    ELSE LET j == CHOOSE k \in 1..n :
                     /\ Leq(xp[k], x)
                     /\ \A m \in (k + 1)..n : ~Leq(xp[m], x)
         IN  IF j = n \/ xp[j] = x THEN fp[j]
             ELSE LET slope == Div(Sub(fp[j + 1], fp[j]), Sub(xp[j + 1], xp[j]))
                  IN  Add(Mul(slope, Sub(x, xp[j])), fp[j])

\* The larger of two floats as np.max has it: NaN wins.
FMax2(a, b) == IF IsNaN(a) \/ IsNaN(b) THEN NaN ELSE IF Leq(a, b) THEN b ELSE a

RECURSIVE FMax(_)
FMax(s) == IF Len(s) = 1 THEN s[1] ELSE FMax2(Head(s), FMax(Tail(s)))

\* np.max(a, axis=-1)
MaxLast(a) ==
    [shape |-> Front(a.shape),
     data  |-> [r \in 1..NRows(a) |-> FMax(Row(a, r))]]

\* np.max(a, axis=-2): the second-to-last axis is reduced away.
MaxSecondLast(a) ==
    LET k  == Len(a.shape)
        n1 == a.shape[k]
        n2 == a.shape[k - 1]
        no == Prod(SubSeq(a.shape, 1, k - 2))
    IN  [shape |-> SubSeq(a.shape, 1, k - 2) \o <<n1>>,
         data  |-> [p \in 1..(no * n1) |->
                       LET o == (p - 1) \div n1
                           i == (p - 1) % n1
                       IN  FMax([m \in 1..n2 |-> a.data[(o * n2 + (m - 1)) * n1 + i + 1]])]]

\* np.argmax(a): the 0-based index into the flattened array of the first
\* largest element; a NaN counts as the largest.
ArgMax(a) ==
    LET d == a.data
        m == FMax(d)
    IN  (CHOOSE k \in 1..Len(d) :
            /\ d[k] = m
            /\ \A j \in 1..(k - 1) : d[j] # m) - 1

\* a * b and a + b with a scalar b broadcast over the array a.
ArrMul(a, b) == [shape |-> a.shape, data |-> [i \in 1..Len(a.data) |-> Mul(a.data[i], b)]]

ArrAdd(a, b) == [shape |-> a.shape, data |-> [i \in 1..Len(a.data) |-> Add(a.data[i], b)]]

\* np.abs(a)
ArrAbs(a) == [shape |-> a.shape, data |-> [i \in 1..Len(a.data) |-> FAbs(a.data[i])]]

\* a * x with the axis x broadcast along the last axis of a (x given as a
\* sequence of floats of the last axis's length).
ArrMulAxis(a, x) ==
    [shape |-> a.shape,
     data  |-> [i \in 1..Len(a.data) |-> Mul(a.data[i], x[((i - 1) % LastDim(a)) + 1])]]

\* ----------------------------------------------------------- Python values
\* The outcome of a call: the exception it raised ("" for none) and the value
\* it returned.
None == [none |-> TRUE]

Return(v) == [exc |-> "", value |-> v]

Raise(e) == [exc |-> e, value |-> None]

\* An optional keyword argument: << >> when absent, <<v>> when given.
Opt(vals) == {<< >>} \cup {<<v>> : v \in vals}

\* kwargs.pop(key, default), and the value __dict__.update(kwargs) leaves.
Or(o, default) == IF o = << >> THEN default ELSE o[1]

MaxInt(a, b) == IF a >= b THEN a ELSE b

\* The default axis [np.nan]: a Python list of one NaN.
NanAxis == <<NaN>>

\* Axes the caller supplies are numpy arrays; only the default axis is a
\* Python list, for which f**2 and f**-5 are a TypeError.
IsList(f) == f = NanAxis

\* s[0:9] of the units tags the model uses.
Prefix9(u) == IF u = "m2/Hz/degr" THEN "m2/Hz/deg" ELSE u

\* -------------------------------------------------------------- containers
\* A check that compares the number of samples instead of the shape.
ShapeOKBySize(a, shp) == Prod(a.shape) = Prod(shp)

\* The constructors' check of a supplied array: array.shape == (nt, nxy, ...)
ShapeOK(a, shp) == a.shape = shp

\* Spec1.__init__(f, **kwargs) with kwargs t, x, lon, energy_units, energy,
\* direction, spreading (each optional).  The attributes that no operation
\* reads or writes (buoy, sensor, y, lat, epsg, text, version and the
\* direction and spreading units) are left out.

Spec1New(f, kw) ==
    LET t   == Or(kw.t, NanAxis)
        x   == Or(kw.x, NanAxis)
        lon == Or(kw.lon, NanAxis)
        nt  == Len(t)
        nxy == MaxInt(Len(x), Len(lon))
        nf  == Len(f)
        shp == <<nt, nxy, nf>>
        energy    == Or(kw.energy, Full(shp, Mul(NaN, Q(0))))
        direction == Or(kw.direction, Full(shp, Mul(NaN, Q(0))))
        spreading == Or(kw.spreading, Full(shp, Mul(NaN, Q(0))))
    IN  IF ~ShapeOK(energy, shp) THEN Raise("Exception")
        ELSE IF ~ShapeOK(direction, shp) THEN Raise("Exception")
        ELSE IF ~ShapeOK(spreading, shp) THEN Raise("Exception")
        ELSE Return([cls |-> "Spec1", f |-> f, source |-> "",
                     t |-> t, x |-> x, lon |-> lon,
                     energy_units |-> Or(kw.energy_units, "m2/Hz/deg"),
                     energy |-> energy, direction |-> direction,
                     spreading |-> spreading])

\* Spec2.__init__(f, direction, **kwargs) with kwargs t, x, lon,
\* energy_units, energy (each optional); direction is the direction axis.
Spec2New(f, direction, kw) ==
    LET t   == Or(kw.t, NanAxis)
        x   == Or(kw.x, NanAxis)
        lon == Or(kw.lon, NanAxis)
        nt  == Len(t)
        nxy == MaxInt(Len(x), Len(lon))
        nf  == Len(f)
        nd  == Len(direction)
        shp == <<nt, nxy, nf, nd>>
        energy == Or(kw.energy, Full(shp, Mul(NaN, Q(0))))
    IN  IF ~ShapeOK(energy, shp) THEN Raise("Exception")
        ELSE Return([cls |-> "Spec2", f |-> f, source |-> "",
                     t |-> t, x |-> x, lon |-> lon,
                     energy_units |-> Or(kw.energy_units, "m2/Hz/deg"),
                     energy |-> energy, direction |-> direction])

\* Spec0.__init__(): np.asarray([[]]) has shape (1, 0).
Empty2 == [shape |-> <<1, 0>>, data |-> << >>]

Spec0New ==
    [source |-> "", x |-> << >>, lon |-> << >>, t |-> Empty2,
     Hs |-> Empty2, Tp |-> Empty2, Tm01 |-> Empty2, Tm02 |-> Empty2,
     pdir |-> Empty2, ms |-> Empty2]

\* -------------------------------------------------------------- generator
\* A normalisation that forgets the factor 16.
JonswapNo16(f, raw, Hm0, normalize) ==
    IF normalize
    THEN LET corr == Div(Q(Hm0 * Hm0), TrapzRow(raw, f))
         IN  [i \in 1..Len(f) |-> Mul(raw[i], corr)]
    ELSE raw

\* jonswap(f, Hm0, Tp, normalize=...).  The closed-form shape
\* pm * gamma**exp(...) is transcendental; raw stands for it, one positive
\* sample per frequency (the shape is positive for positive f, Hm0 and Tp).
\* The normalisation is the code's: corr = Hm0**2 / (16*trapz(E, f)).
Jonswap(f, raw, Hm0, normalize) ==
    IF normalize
    THEN LET corr == Div(Q(Hm0 * Hm0), Mul(Q(16), TrapzRow(raw, f)))
         IN  [i \in 1..Len(f) |-> Mul(raw[i], corr)]
    ELSE raw

\* Spec1.from_jonswap(Hm0, Tp, pdir, ms, normalize=...): every (t, x) row
\* of energy is the generated spectrum; spreading and direction are
\* energy*0 + ms and energy*0 + pdir.  On a list axis f**-5 raises before
\* anything is written.
Spec1FromJonswap(self, raw, Hm0, pdir, ms, normalize) ==
    IF IsList(self.f) THEN [exc |-> "TypeError", self |-> self]
    ELSE LET E   == Jonswap(self.f, raw, Hm0, normalize)
             nf  == Len(self.f)
             nxy == MaxInt(Len(self.x), Len(self.lon))
             en  == [shape |-> self.energy.shape,
                     data  |-> [i \in 1..(Len(self.t) * nxy * nf) |->
                                   E[((i - 1) % nf) + 1]]]
         IN  [exc  |-> "",
              self |-> [self EXCEPT !.energy = en,
                                    !.spreading = ArrAdd(ArrMul(en, Q(0)), Q(ms)),
                                    !.direction = ArrAdd(ArrMul(en, Q(0)), Q(pdir)),
                                    !.energy_units = "m2/Hz"]]

\* A rank-2 generator that also overwrites direction, as the rank-1 one does.
Spec2FromJonswapSetsDirection(self, raw, cdir, Hm0, normalize) ==
    IF IsList(self.f) THEN [exc |-> "TypeError", self |-> self]
    ELSE [exc  |-> "",
          self |-> [self EXCEPT !.energy = Full(self.energy.shape, Q(Hm0)),
                                !.direction = [i \in 1..Len(self.direction) |-> Q(0)],
                                !.energy_units = "m2/Hz/deg"]]

\* Spec2.from_jonswap(Hm0, Tp, pdir, ms, normalize=...):
\* energy[it, ix, iff, :] = cdir * energy1[iff], where cdir stands for
\* directional_spreading(direction, pdir, ms): one weight >= 0 per direction.
Spec2FromJonswap(self, raw, cdir, Hm0, normalize) ==
    IF IsList(self.f) THEN [exc |-> "TypeError", self |-> self]
    ELSE LET energy1 == Jonswap(self.f, raw, Hm0, normalize)
             nf  == Len(self.f)
             nd  == Len(self.direction)
             nxy == MaxInt(Len(self.x), Len(self.lon))
             en  == [shape |-> self.energy.shape,
                     data  |-> [i \in 1..(Len(self.t) * nxy * nf * nd) |->
                                   Mul(cdir[((i - 1) % nd) + 1],
                                       energy1[(((i - 1) \div nd) % nf) + 1])]]
         IN  [exc  |-> "",
              self |-> [self EXCEPT !.energy = en,
                                    !.energy_units = "m2/Hz/deg"]]

\* ------------------------------------------------------------- transforms
\* 4*np.sqrt(m0) and np.sqrt(m) elementwise.
Arr4Sqrt(m) ==
    [shape |-> m.shape, data |-> [i \in 1..Len(m.data) |-> TimesSqrt(4, m.data[i])]]

ArrSqrt(m) ==
    [shape |-> m.shape, data |-> [i \in 1..Len(m.data) |-> Sqrt(m.data[i])]]

\* a / b elementwise for arrays of one shape.
ArrDiv(a, b) ==
    [shape |-> a.shape, data |-> [i \in 1..Len(a.data) |-> Div(a.data[i], b.data[i])]]

\* The frequency-range branch of Hm0: the cumulative trapezoidal integral of
\* each (t, x) row, interpolated at fmax and at fmin.
RangeM0(spec1, f, fmin, fmax) ==
    [shape |-> SubSeq(spec1.shape, 1, 2),
     data  |-> [r \in 1..NRows(spec1) |->
                   LET Efcum == CumtrapzRow(Row(spec1, r), f, Len(f))
                   IN  Sub(Interp(fmax, f, Efcum), Interp(fmin, f, Efcum))]]

\* The m0 of Hm0 on an omnidirectional density spec1.
M0(spec1, f, fmin, fmax) ==
    IF FEq(fmin, Q(0)) /\ fmax = PInf
    THEN Trapz(spec1, f)
    ELSE RangeM0(spec1, f, fmin, fmax)

\* Spec1.Hm0(fmin, fmax): with another units tag m0 is None and
\* 4*np.sqrt(None) raises a TypeError.
Spec1Hm0(self, fmin, fmax) ==
    IF self.energy_units = "m2/Hz"
    THEN Return(Arr4Sqrt(M0(self.energy, self.f, fmin, fmax)))
    ELSE Raise("TypeError")

\* f**2 of an array axis
AxisSq(f) == [i \in 1..Len(f) |-> Mul(f[i], f[i])]

\* A second moment that weighs with f instead of f**2.
Moment2Linear(d, f) == Trapz(ArrMulAxis(d, f), f)

\* The moments of a density d over the frequency axis:
\* m1 = np.trapz(d*f, f) and m2 = np.trapz(d*f**2, f).
Moment1(d, f) == Trapz(ArrMulAxis(d, f), f)

Moment2(d, f) == Trapz(ArrMulAxis(d, AxisSq(f)), f)

\* Spec1.Tm01()
Spec1Tm01(self) ==
    IF Prefix9(self.energy_units) = "m2/Hz"
    THEN LET m0 == Trapz(self.energy, self.f)
             m1 == Moment1(self.energy, self.f)
         IN  Return(ArrDiv(m0, m1))
    ELSE Return(None)

\* Spec1.Tm02(): self.f**2 is a TypeError on a list axis.
Spec1Tm02(self) ==
    IF Prefix9(self.energy_units) = "m2/Hz"
    THEN IF IsList(self.f) THEN Raise("TypeError")
         ELSE LET m0 == Trapz(self.energy, self.f)
                  m2 == Moment2(self.energy, self.f)
              IN  Return(ArrSqrt(ArrDiv(m0, m2)))
    ELSE Return(None)

\* 1/self.f[k] and self.direction[k] for the flat index k of np.argmax: an
\* IndexError when k is not an index of the axis.
Spec1Tp(self) ==
    IF Prefix9(self.energy_units) = "m2/Hz"
    THEN LET k == ArgMax(self.energy)
         IN  IF k >= Len(self.f) THEN Raise("IndexError")
             ELSE Return(Scalar(Div(Q(1), self.f[k + 1])))
    ELSE Return(None)

\* The direction integral without the absolute value.
DirIntegralSigned(self) == Trapz(self.energy, self.direction)

\* np.abs(np.trapz(self.energy, self.direction)): the omnidirectional density.
DirIntegral(self) == ArrAbs(Trapz(self.energy, self.direction))

\* Spec2.Hm0(fmin, fmax)
Spec2Hm0(self, fmin, fmax) ==
    IF Prefix9(self.energy_units) = "m2/Hz/deg"
    THEN Return(Arr4Sqrt(M0(DirIntegral(self), self.f, fmin, fmax)))
    ELSE Raise("TypeError")

\* Spec2.Tm01()
Spec2Tm01(self) ==
    IF Prefix9(self.energy_units) = "m2/Hz/deg"
    THEN LET m0 == Trapz(DirIntegral(self), self.f)
             m1 == Moment1(DirIntegral(self), self.f)
         IN  Return(ArrDiv(m0, m1))
    ELSE Return(None)

\* Spec2.Tm02()
Spec2Tm02(self) ==
    IF Prefix9(self.energy_units) = "m2/Hz/deg"
    THEN IF IsList(self.f) THEN Raise("TypeError")
         ELSE LET m0 == Trapz(DirIntegral(self), self.f)
                  m2 == Moment2(DirIntegral(self), self.f)
              IN  Return(ArrSqrt(ArrDiv(m0, m2)))
    ELSE Return(None)

\* Spec2.Tp()
Spec2Tp(self) ==
    IF Prefix9(self.energy_units) = "m2/Hz/deg"
    THEN LET k == ArgMax(MaxLast(self.energy))
         IN  IF k >= Len(self.f) THEN Raise("IndexError")
             ELSE Return(Scalar(Div(Q(1), self.f[k + 1])))
    ELSE Return(None)

\* Spec2.pdir()
Spec2Pdir(self) ==
    IF Prefix9(self.energy_units) = "m2/Hz/deg"
    THEN LET k == ArgMax(MaxSecondLast(self.energy))
         IN  IF k >= Len(self.direction) THEN Raise("IndexError")
             ELSE Return(Scalar(self.direction[k + 1]))
    ELSE Return(None)

\* The methods by class.  Spec1 defines no pdir: the call is an
\* AttributeError.
Hm0(self, fmin, fmax) ==
    IF self.cls = "Spec1" THEN Spec1Hm0(self, fmin, fmax) ELSE Spec2Hm0(self, fmin, fmax)

Tm01(self) == IF self.cls = "Spec1" THEN Spec1Tm01(self) ELSE Spec2Tm01(self)

Tm02(self) == IF self.cls = "Spec1" THEN Spec1Tm02(self) ELSE Spec2Tm02(self)

Tp(self) == IF self.cls = "Spec1" THEN Spec1Tp(self) ELSE Spec2Tp(self)

Pdir(self) == IF self.cls = "Spec1" THEN Raise("AttributeError") ELSE Spec2Pdir(self)

\* Spec0.from_Spec(Spec): the metadata, then Hm0, Tp, Tm01, Tm02 and pdir in
\* that order; an exception leaves what was assigned before it.
FromSpec(self, Spec) ==
    LET h  == Hm0(Spec, Q(0), PInf)
        tp == Tp(Spec)
        t1 == Tm01(Spec)
        t2 == Tm02(Spec)
        pd == Pdir(Spec)
        p0 == [self EXCEPT !.source = Spec.source, !.x = Spec.x,
                           !.lon = Spec.lon, !.t = Spec.t]
        p1 == [p0 EXCEPT !.Hs = h.value]
        p2 == [p1 EXCEPT !.Tp = tp.value]
        p3 == [p2 EXCEPT !.Tm01 = t1.value]
        p4 == [p3 EXCEPT !.Tm02 = t2.value]
        p5 == [p4 EXCEPT !.pdir = pd.value]
    IN  IF h.exc # "" THEN [exc |-> h.exc, self |-> p0]
        ELSE IF tp.exc # "" THEN [exc |-> tp.exc, self |-> p1]
        ELSE IF t1.exc # "" THEN [exc |-> t1.exc, self |-> p2]
        ELSE IF t2.exc # "" THEN [exc |-> t2.exc, self |-> p3]
        ELSE IF pd.exc # "" THEN [exc |-> pd.exc, self |-> p4]
        ELSE [exc |-> "", self |-> p5]

\* ------------------------------------------------------------------ inputs
Ramp(n) == [i \in 1..n |-> Q(i)]

\* Supplied t, x and lon axes: 2 and more samples (one sample is the default).
Axes == {Ramp(n) : n \in 2..MaxLen}

\* Supplied frequency axes: positive and strictly increasing, from 1 Hz on.
FAxes ==
    {[i \in 1..Len(s) |-> Q(s[i])] :
        s \in {q \in UNION {[1..n -> 1..MaxF] : n \in 1..MaxF} :
                  /\ q[1] = 1
                  /\ \A i \in 1..(Len(q) - 1) : q[i] < q[i + 1]}}

\* Supplied direction axes: ascending, descending and neither.
DirAxes ==
    {<<Q(0)>>, <<Q(0), Q(1)>>, <<Q(1), Q(0)>>, <<Q(0), Q(1), Q(3)>>,
     <<Q(3), Q(1), Q(0)>>, <<Q(0), Q(3), Q(1)>>}

UnitTags == {"m2/Hz", "m2/Hz/degr"}

\* Energy samples supplied at construction and weights of the spreading
\* kernel (>= 0).
EnergyVals == {0, 1, 2}

\* Samples of the un-normalised JONSWAP shape on an axis of n frequencies
\* (positive): the flat shape and one shape peaked at each frequency.
RawShapes(n) == {[i \in 1..n |-> IF i = k THEN 2 ELSE 1] : k \in 0..n}

WeightVals == {0, 1}

\* Arrays of the shape the axes imply, with every content over EnergyVals.
Matching(shp) ==
    {[shape |-> shp, data |-> [i \in 1..Prod(shp) |-> Q(d[i])]] :
        d \in [1..Prod(shp) -> EnergyVals]}

\* Directional energy arrays of shape shp: every cell is 0 or 1.
Matching2(shp) ==
    {[shape |-> shp, data |-> [i \in 1..Prod(shp) |-> Q(d[i])]] :
        d \in [1..Prod(shp) -> WeightVals]}

\* Two arrays of the implied shape: a flat one, and one that grows to its
\* last sample.
Shaped(shp) ==
    {Full(shp, Q(1)), [shape |-> shp, data |-> [i \in 1..Prod(shp) |-> Q(i)]]}

\* Arrays of another shape than shp: the flattened array (as many samples,
\* one axis) and (2, 3, 4).
Mismatched(shp) == {Full(w, Q(1)) : w \in {<<2, 3, 4>>, <<Prod(shp)>>}}

\* Arguments (fmin, fmax) of Hm0: the default band, sub-bands that end
\* between and on samples, a band that covers the axis and an empty one.
Bands ==
    {<<Q(0), PInf>>, <<Q(0), Norm(3, 2)>>, <<Norm(3, 2), PInf>>,
     <<Q(1), Q(2)>>, <<Norm(1, 2), Q(MaxF)>>, <<Q(2), Q(1)>>}

SomeBands == {<<Q(0), PInf>>, <<Q(0), Norm(3, 2)>>}

PdirVals == {1}

MsVals == {2}

\* ------------------------------------------------------------------- state
VARIABLES
    S,        \* the spectral container (cls "None" before construction)
    P,        \* the Spec0 parameter aggregate
    call,     \* the last call: its name and arguments
    ret,      \* the last call's outcome
    kwUnits   \* whether the constructor was given energy_units

vars == <<S, P, call, ret, kwUnits>>

NoObj == [cls |-> "None"]

Init ==
    /\ S = NoObj
    /\ P = Spec0New
    /\ call = [op |-> "start"]
    /\ ret = Return(None)
    /\ kwUnits = FALSE

Implied1(f, t, x, lon) ==
    <<Len(Or(t, NanAxis)), MaxInt(Len(Or(x, NanAxis)), Len(Or(lon, NanAxis))), Len(f)>>

\* The state after S = Spec1(f=f, **kw).
Constructed1(f, kw) ==
    LET r == Spec1New(f, kw)
    IN  /\ call' = [op |-> "Spec1", f |-> f, kw |-> kw]
        /\ ret' = [exc |-> r.exc, value |-> None]
        /\ S' = IF r.exc = "" THEN r.value ELSE NoObj
        /\ kwUnits' = (kw.energy_units # << >>)
        /\ UNCHANGED P

\* The state after S = Spec2(f=f, direction=direction, **kw).
Constructed2(f, direction, kw) ==
    LET r == Spec2New(f, direction, kw)
    IN  /\ call' = [op |-> "Spec2", f |-> f, direction |-> direction, kw |-> kw]
        /\ ret' = [exc |-> r.exc, value |-> None]
        /\ S' = IF r.exc = "" THEN r.value ELSE NoObj
        /\ kwUnits' = (kw.energy_units # << >>)
        /\ UNCHANGED P

\* S = Spec1(f=f, **kw): any of the keywords given or not, the arrays of the
\* implied shape or of another.
NewSpec1 ==
    /\ call.op = "start"
    /\ \E f \in FAxes \cup {NanAxis}, t \in Opt(Axes), x \in Opt(Axes),
          lon \in Opt(Axes), u \in Opt(UnitTags) :
         LET shp == Implied1(f, t, x, lon) IN
         /\ Prod(shp) <= MaxCells
         /\ \E energy \in Opt(Shaped(shp) \cup Mismatched(shp)),
               direction \in Opt({Full(shp, Q(1)), Full(<<Prod(shp)>>, Q(1))}),
               spreading \in Opt({Full(shp, Q(2)), Full(<<Prod(shp)>>, Q(2))}) :
              Constructed1(f, [t |-> t, x |-> x, lon |-> lon, energy_units |-> u,
                               energy |-> energy, direction |-> direction,
                               spreading |-> spreading])

\* S = Spec2(f=f, direction=direction, **kw)
NewSpec2 ==
    /\ call.op = "start"
    /\ \E f \in FAxes \cup {NanAxis}, direction \in DirAxes \cup {NanAxis},
          t \in Opt(Axes), x \in Opt(Axes), lon \in Opt(Axes),
          u \in Opt(UnitTags) :
         LET shp == Implied1(f, t, x, lon) \o <<Len(direction)>> IN
         /\ Prod(shp) <= MaxCells
         /\ \E energy \in Opt(Shaped(shp) \cup Mismatched(shp)) :
              Constructed2(f, direction,
                           [t |-> t, x |-> x, lon |-> lon, energy_units |-> u,
                            energy |-> energy])

\* S.from_jonswap(Hm0, Tp, pdir, ms, normalize=normalize).  The spectra are
\* generated before the reductions are called (which leave the container as
\* it is), and the aggregate is derived last.
CallFromJonswap ==
    /\ S.cls # "None"
    /\ call.op \in {"Spec1", "Spec2", "from_jonswap"}
    /\ \E h \in 1..MaxH, pdir \in PdirVals, ms \in MsVals, normalize \in BOOLEAN,
          raw \in RawShapes(Len(S.f)),
          w \in [1..(IF S.cls = "Spec2" THEN Len(S.direction) ELSE 0) -> WeightVals] :
         LET rawq == [i \in 1..Len(raw) |-> Q(raw[i])]
             cdir == [i \in 1..Len(w) |-> Q(w[i])]
             r == IF S.cls = "Spec1"
                  THEN Spec1FromJonswap(S, rawq, h, pdir, ms, normalize)
                  ELSE Spec2FromJonswap(S, rawq, cdir, h, normalize)
         IN  /\ call' = [op |-> "from_jonswap", Hm0 |-> h, pdir |-> pdir, ms |-> ms,
                         normalize |-> normalize, raw |-> rawq, cdir |-> cdir]
             /\ ret' = [exc |-> r.exc,
                        value |-> IF r.exc = "" THEN [self |-> TRUE] ELSE None]
             /\ S' = r.self
             /\ UNCHANGED <<P, kwUnits>>

\* S.Hm0(fmin, fmax) for a band (fmin, fmax) of bands
CallHm0(bands) ==
    /\ S.cls # "None"
    /\ P = Spec0New
    /\ \E b \in bands :
         /\ call' = [op |-> "Hm0", fmin |-> b[1], fmax |-> b[2]]
         /\ ret' = Hm0(S, b[1], b[2])
    /\ UNCHANGED <<S, P, kwUnits>>

\* S.Tm01()
CallTm01 ==
    /\ S.cls # "None"
    /\ P = Spec0New
    /\ call' = [op |-> "Tm01"]
    /\ ret' = Tm01(S)
    /\ UNCHANGED <<S, P, kwUnits>>

\* S.Tm02()
CallTm02 ==
    /\ S.cls # "None"
    /\ P = Spec0New
    /\ call' = [op |-> "Tm02"]
    /\ ret' = Tm02(S)
    /\ UNCHANGED <<S, P, kwUnits>>

\* S.Tp()
CallTp ==
    /\ S.cls # "None"
    /\ P = Spec0New
    /\ call' = [op |-> "Tp"]
    /\ ret' = Tp(S)
    /\ UNCHANGED <<S, P, kwUnits>>

\* S.pdir()
CallPdir ==
    /\ S.cls # "None"
    /\ P = Spec0New
    /\ call' = [op |-> "pdir"]
    /\ ret' = Pdir(S)
    /\ UNCHANGED <<S, P, kwUnits>>

\* P.from_Spec(S) on the fresh aggregate P = Spec0()
CallFromSpec ==
    /\ S.cls # "None"
    /\ P = Spec0New
    /\ call.op # "from_Spec"
    /\ LET r == FromSpec(P, S)
       IN  /\ P' = r.self
           /\ ret' = [exc |-> r.exc,
                      value |-> IF r.exc = "" THEN [self |-> TRUE] ELSE None]
    /\ call' = [op |-> "from_Spec"]
    /\ UNCHANGED <<S, kwUnits>>

\* The life of a container: construction, generation, reductions and the
\* derivation of the aggregate.
Next ==
    \/ NewSpec1
    \/ NewSpec2
    \/ CallFromJonswap
    \/ CallHm0(SomeBands)
    \/ CallTm01
    \/ CallTm02
    \/ CallTp
    \/ CallPdir
    \/ CallFromSpec

Spec == Init /\ [][Next]_vars

\* The transforms on supplied spectra: the container is constructed with an
\* energy array of the implied shape, any content over EnergyVals, and with
\* the units tag of its rank; the reductions are then called on it.
InitT ==
    /\ P = Spec0New
    /\ ret = Return(None)
    /\ kwUnits \in BOOLEAN
    /\ \E f \in FAxes, t \in Opt(Axes), x \in Opt(Axes) :
         \/ /\ kwUnits = TRUE
            /\ Prod(Implied1(f, t, x, << >>)) <= MaxCells
            /\ \E energy \in Matching(Implied1(f, t, x, << >>)) :
                 LET kw == [t |-> t, x |-> x, lon |-> << >>,
                            energy_units |-> <<"m2/Hz">>, energy |-> <<energy>>,
                            direction |-> << >>, spreading |-> << >>]
                 IN  /\ call = [op |-> "Spec1", f |-> f, kw |-> kw]
                     /\ S = Spec1New(f, kw).value
         \/ /\ kwUnits = FALSE
            /\ \E direction \in DirAxes :
                 /\ Prod(Implied1(f, t, x, << >>) \o <<Len(direction)>>) <= MaxCellsT
                 /\ \E energy \in Matching2(Implied1(f, t, x, << >>) \o <<Len(direction)>>) :
                      LET kw == [t |-> t, x |-> x, lon |-> << >>,
                                 energy_units |-> << >>, energy |-> <<energy>>]
                      IN  /\ call = [op |-> "Spec2", f |-> f,
                                     direction |-> direction, kw |-> kw]
                          /\ S = Spec2New(f, direction, kw).value

NextT ==
    \/ CallHm0(Bands)
    \/ CallTm01
    \/ CallTm02
    \/ CallTp
    \/ CallPdir

SpecT == InitT /\ [][NextT]_vars

\* ------------------------------------------------------------------ claims
IsCtor == call.op \in {"Spec1", "Spec2"}

\* The shape the constructor call's axes imply.
ImpliedShape ==
    IF call.op = "Spec1"
    THEN Implied1(call.f, call.kw.t, call.kw.x, call.kw.lon)
    ELSE Implied1(call.f, call.kw.t, call.kw.x, call.kw.lon) \o <<Len(call.direction)>>

\* The arrays the constructor call supplies (each as <<array>>).
Supplied ==
    (IF call.op = "Spec1"
     THEN {call.kw.energy, call.kw.direction, call.kw.spreading}
     ELSE {call.kw.energy}) \ {<< >>}

\* C1: a constructor call that supplies an array (energy; for rank 1 also
\* direction or spreading) of another shape than the axes imply raises and
\* yields no container; when every supplied array has the implied shape the
\* call succeeds and the container stores the supplied arrays.
C1_ShapeChecked ==
    IsCtor =>
        IF \E o \in Supplied : o[1].shape # ImpliedShape
        THEN ret.exc = "Exception" /\ S = NoObj
        ELSE /\ ret.exc = ""
             /\ S.cls = call.op
             /\ S.energy.shape = ImpliedShape
             /\ call.kw.energy # << >> => S.energy = call.kw.energy[1]
             /\ call.op = "Spec1" =>
                   /\ S.direction.shape = ImpliedShape
                   /\ S.spreading.shape = ImpliedShape
                   /\ call.kw.direction # << >> => S.direction = call.kw.direction[1]
                   /\ call.kw.spreading # << >> => S.spreading = call.kw.spreading[1]

\* A rank-1 construction with energy of shape (2,3,4) on axes that imply
\* (1,1,3) has raised.
C1_Witness ==
    /\ call.op = "Spec1"
    /\ call.kw.energy # << >>
    /\ call.kw.energy[1].shape = <<2, 3, 4>>
    /\ ImpliedShape = <<1, 1, 3>>
    /\ ret.exc = "Exception"
    /\ S = NoObj

IsReduction ==
    /\ call.op \in {"Hm0", "Tm01", "Tm02", "Tp", "pdir"}
    /\ ~(call.op = "pdir" /\ S.cls = "Spec1")

\* The units tag is the one the reductions of the container's rank expect.
UnitsKnown ==
    IF S.cls = "Spec1" THEN S.energy_units = "m2/Hz"
    ELSE Prefix9(S.energy_units) = "m2/Hz/deg"

\* C2: a reduction (Hm0, Tm01, Tm02, Tp, and pdir on rank 2) called on a
\* container whose units tag is not the expected one does not raise and
\* returns None.
C2_UnknownUnitsReturnNone ==
    (IsReduction /\ ~UnitsKnown) => (ret.exc = "" /\ ret.value = None)

Nxy == MaxInt(Len(S.x), Len(S.lon))

\* C3: from_Spec on a rank-1 or rank-2 container with a valid units tag
\* completes: the metadata is copied, Hs, Tp, Tm01, Tm02 (and pdir for rank
\* 2) hold the container's reductions, ms is unset, the aggregate is returned.
C3_FromSpecCompletes ==
    (call.op = "from_Spec" /\ UnitsKnown) =>
        /\ ret.exc = ""
        /\ ret.value = [self |-> TRUE]
        /\ P.t = S.t /\ P.x = S.x /\ P.lon = S.lon /\ P.source = S.source
        /\ P.Hs = Hm0(S, Q(0), PInf).value
        /\ P.Tp = Tp(S).value
        /\ P.Tm01 = Tm01(S).value
        /\ P.Tm02 = Tm02(S).value
        /\ S.cls = "Spec2" => P.pdir = Pdir(S).value
        /\ P.ms = Empty2

\* C4: after from_Spec has populated the aggregate, Hs, Tp, Tm01, Tm02 and
\* pdir all have the shape (nt, nxy).
C4_SameLeadingShape ==
    (call.op = "from_Spec" /\ ret.exc = "") =>
        \A a \in {P.Hs, P.Tp, P.Tm01, P.Tm02, P.pdir} :
            a.shape = <<Len(S.t), Nxy>>

\* C5: a container constructed without energy_units, after any number of
\* from_jonswap calls, carries the tag of its rank: "m2/Hz" for rank 1,
\* "m2/Hz/deg" for rank 2.
C5_UnitsTagOfRank ==
    (S.cls # "None" /\ ~kwUnits) =>
        S.energy_units = (IF S.cls = "Spec1" THEN "m2/Hz" ELSE "m2/Hz/deg")

\* The frequency axis is positive and strictly increasing, the energy is
\* finite and non-negative.
PositiveAxis ==
    /\ \A i \in 1..Len(S.f) : IsFinite(S.f[i]) /\ S.f[i][1] > 0
    /\ \A i \in 1..(Len(S.f) - 1) : Lt(S.f[i], S.f[i + 1])

NonNegEnergy ==
    \A i \in 1..Len(S.energy.data) :
        IsFinite(S.energy.data[i]) /\ S.energy.data[i][1] >= 0

\* The omnidirectional density the reductions integrate over frequency.
Density == IF S.cls = "Spec1" THEN S.energy ELSE DirIntegral(S)

\* Band limits the claims range over: 0, 1/2, 1, ..., MaxF + 1 and +inf.
QueryPts == {Norm(k, 2) : k \in 0..(2 * MaxF + 2)} \cup {PInf}

\* a <= b for every cell of two arrays of roots.
AllRootLeq(a, b) ==
    /\ a.shape = b.shape
    /\ \A i \in 1..Len(a.data) :
          /\ ~IsNaN(a.data[i].rad) /\ ~IsNaN(b.data[i].rad)
          /\ Leq(a.data[i].rad, b.data[i].rad)

\* C6: for non-negative energy on a strictly increasing axis, the Hm0 of a
\* band fmin <= fmax is not larger than the Hm0 of any band with the same
\* fmin and a larger fmax, or with the same fmax and a smaller fmin.
C6_Hm0Monotone ==
    (call.op = "Hm0" /\ ret.exc = "" /\ PositiveAxis /\ NonNegEnergy
       /\ Leq(call.fmin, call.fmax)) =>
        \A q \in QueryPts :
            /\ Leq(call.fmax, q) => AllRootLeq(ret.value, Hm0(S, call.fmin, q).value)
            /\ Leq(q, call.fmin) => AllRootLeq(ret.value, Hm0(S, q, call.fmax).value)

\* Hm0 of a band that ends between two samples of a three-sample axis is
\* positive and strictly below the full-band value in the first cell.
C6_Witness ==
    /\ call.op = "Hm0" /\ ret.exc = ""
    /\ Len(S.f) = 3
    /\ call.fmin = Q(0) /\ call.fmax = Norm(3, 2)
    /\ Lt(Q(0), ret.value.data[1].rad)
    /\ Lt(ret.value.data[1].rad, Hm0(S, Q(0), PInf).value.data[1].rad)

\* The band (fmin, fmax) covers the frequency axis of the container.
Covers(fmin, fmax) == Leq(fmin, S.f[1]) /\ Leq(S.f[Len(S.f)], fmax)

\* C7: the cumulative-integral m0 of any band that covers the frequency axis
\* equals the full-band trapezoidal m0 in every cell, and Hm0 called with
\* such a band returns what the full-band Hm0() returns.
C7_CoveringBandIsFullBand ==
    (call.op = "Hm0" /\ PositiveAxis /\ UnitsKnown /\ Covers(call.fmin, call.fmax)) =>
        /\ ret.exc = ""
        /\ ret.value = Hm0(S, Q(0), PInf).value
        /\ ret.value = Arr4Sqrt(Trapz(Density, S.f))
        /\ \A q1, q2 \in QueryPts :
              Covers(q1, q2) => RangeM0(Density, S.f, q1, q2) = Trapz(Density, S.f)

\* Hm0(1/2, MaxF) on a three-sample axis has returned a positive value.
C7_Witness ==
    /\ call.op = "Hm0" /\ ret.exc = ""
    /\ Len(S.f) = 3
    /\ call.fmin = Norm(1, 2) /\ call.fmax = Q(MaxF)
    /\ Lt(Q(0), ret.value.data[1].rad)

RECURSIVE Reversed(_)
Reversed(s) == IF s = << >> THEN << >> ELSE Append(Reversed(Tail(s)), Head(s))

\* The rank-2 container with its direction axis reversed and its energy
\* reordered along that axis in the same way.
ReversedDirection ==
    LET nd == Len(S.direction)
    IN  [S EXCEPT !.direction = Reversed(S.direction),
                  !.energy = [shape |-> S.energy.shape,
                              data  |-> [i \in 1..Len(S.energy.data) |->
                                  S.energy.data[((i - 1) \div nd) * nd
                                                + (nd - 1 - ((i - 1) % nd)) + 1]]]]

\* C8: Hm0, Tm01 and Tm02 of a rank-2 container return the same on the
\* container with the direction axis reversed and the energy reordered
\* along it.
C8_DirectionReversal ==
    (S.cls = "Spec2" /\ call.op \in {"Hm0", "Tm01", "Tm02"}) =>
        ret = (IF call.op = "Hm0" THEN Hm0(ReversedDirection, call.fmin, call.fmax)
               ELSE IF call.op = "Tm01" THEN Tm01(ReversedDirection)
               ELSE Tm02(ReversedDirection))

\* Tm01 of a rank-2 container with three directions and a non-zero direction
\* integral has returned a finite positive period.
C8_Witness ==
    /\ S.cls = "Spec2" /\ call.op = "Tm01" /\ ret.exc = ""
    /\ Len(S.direction) = 3
    /\ IsFinite(ret.value.data[1]) /\ ret.value.data[1][1] > 0

\* The periods of the container, cell by cell.
CellsTm01 == Tm01(S).value.data

CellsTm02 == Tm02(S).value.data

\* C9 as stated: for non-negative, not identically zero energy on a strictly
\* increasing positive axis, Tm02 <= Tm01 in every cell.
C9_Tm02LeqTm01 ==
    (S.cls # "None" /\ call.op \in {"Tm01", "Tm02"} /\ ret.exc = "" /\ UnitsKnown
       /\ PositiveAxis /\ NonNegEnergy
       /\ \E i \in 1..Len(S.energy.data) : S.energy.data[i][1] > 0) =>
        \A i \in 1..Len(CellsTm01) : RootLeq(CellsTm02[i], CellsTm01[i])

\* C9 amended: for non-negative energy on a strictly increasing positive
\* axis, m1*m1 <= m0*m2 in every cell, and Tm02 <= Tm01 in every cell whose
\* zeroth moment m0 is positive.
C9_Tm02LeqTm01WhereM0Positive ==
    (S.cls # "None" /\ call.op \in {"Tm01", "Tm02"} /\ ret.exc = "" /\ UnitsKnown
       /\ PositiveAxis /\ NonNegEnergy) =>
        LET m0 == Trapz(Density, S.f).data
            m1 == Moment1(Density, S.f).data
            m2 == Moment2(Density, S.f).data
        IN  \A i \in 1..Len(m0) :
                /\ Leq(Mul(m1[i], m1[i]), Mul(m0[i], m2[i]))
                /\ Lt(Q(0), m0[i]) =>
                      /\ RootLeq(CellsTm02[i], CellsTm01[i])
                      /\ call.op = "Tm01" => ret.value.data[i] = CellsTm01[i]
                      /\ call.op = "Tm02" => ret.value.data[i] = CellsTm02[i]

\* Tm02 has returned a period strictly below Tm01 in a cell with m0 > 0.
C9_Witness ==
    /\ S.cls # "None" /\ call.op = "Tm02" /\ ret.exc = ""
    /\ Len(S.f) = 3
    /\ Lt(Q(0), Trapz(Density, S.f).data[1])
    /\ RootLeq(ret.value.data[1], CellsTm01[1])
    /\ ~Leq(Mul(CellsTm01[1], CellsTm01[1]), ret.value.data[1].rad)

\* 16 * trapz(E, f) of one spectrum E.
Sixteen_m0(E, f) == Mul(Q(16), TrapzRow(E, f))

\* The normalised generator and the rank-1 container it filled agree with
\* the requested Hm0: 16*trapz(E, f) = Hm0**2 for the generated spectrum and
\* for every row, and Hm0() is sqrt(Hm0**2) in every cell.
NormalisedToRequest ==
    /\ Sixteen_m0(Jonswap(S.f, call.raw, call.Hm0, TRUE), S.f) = Q(call.Hm0 * call.Hm0)
    /\ \A r \in 1..NRows(S.energy) :
          Sixteen_m0(Row(S.energy, r), S.f) = Q(call.Hm0 * call.Hm0)
    /\ Hm0(S, Q(0), PInf).exc = ""
    /\ \A i \in 1..(Len(S.t) * Nxy) :
          Hm0(S, Q(0), PInf).value.data[i] = [rad |-> Q(call.Hm0 * call.Hm0)]

NormalisedFill ==
    /\ call.op = "from_jonswap" /\ ret.exc = ""
    /\ call.normalize
    /\ S.cls = "Spec1"
    /\ PositiveAxis

\* C10 as stated: on every positive strictly increasing frequency axis the
\* normalised spectrum has 16*trapz(E, f) = Hm0**2, and the rank-1 container
\* filled by from_jonswap reports the requested Hm0 in every cell.
C10_NormalisedHm0 == NormalisedFill => NormalisedToRequest

\* C10 amended: the same on every positive strictly increasing frequency
\* axis of at least two samples.
C10_NormalisedHm0TwoSamples ==
    (NormalisedFill /\ Len(S.f) >= 2) => NormalisedToRequest

\* from_jonswap with normalize has filled a rank-1 container of two rows on
\* a two-sample axis from a shape that is not flat, for Hm0 = 2.
C10_Witness ==
    /\ NormalisedFill
    /\ Len(S.f) = 2 /\ NRows(S.energy) = 2
    /\ call.Hm0 = 2
    /\ call.raw[1] # call.raw[2]

\* The 0-based bin, along the frequency (resp. direction) axis, of the
\* largest element of the container's energy.
PeakFrequencyBin ==
    (IF S.cls = "Spec1" THEN ArgMax(S.energy) ELSE ArgMax(MaxLast(S.energy))) % Len(S.f)

PeakDirectionBin == ArgMax(MaxSecondLast(S.energy)) % Len(S.direction)

\* C11: on a container of any size with a valid units tag, Tp() completes and
\* returns 1/f[k] for the frequency bin k of maximum energy (rank 2: of the
\* largest maximum over direction), and rank-2 pdir() completes and returns
\* direction[j] for the direction bin j of the largest maximum over
\* frequency: the selected index lies within the axis.
C11_PeakIndexWithinAxis ==
    (IsReduction /\ call.op \in {"Tp", "pdir"} /\ UnitsKnown) =>
        /\ ret.exc = ""
        /\ call.op = "Tp" =>
              ret.value = Scalar(Div(Q(1), S.f[PeakFrequencyBin + 1]))
        /\ call.op = "pdir" =>
              ret.value = Scalar(S.direction[PeakDirectionBin + 1])

\* The shape (len(t), max(len(x), len(lon)), len(f)) of the container.
ShapeOfAxes == <<Len(S.t), Nxy, Len(S.f)>>

\* C12: after from_jonswap(Hm0, Tp, pdir, ms) has returned on a rank-1
\* container, spreading equals ms and direction equals pdir in every cell,
\* every (t, x) row of energy is the generated spectrum, the three arrays
\* have the shape (len(t), max(len(x), len(lon)), len(f)), the units tag is
\* "m2/Hz" and the call has returned the container.
C12_FromJonswapFills ==
    (call.op = "from_jonswap" /\ S.cls = "Spec1" /\ ret.exc = "") =>
        /\ ret.value = [self |-> TRUE]
        /\ S.energy_units = "m2/Hz"
        /\ S.energy.shape = ShapeOfAxes
        /\ S.direction.shape = ShapeOfAxes
        /\ S.spreading.shape = ShapeOfAxes
        /\ \A r \in 1..NRows(S.energy) :
              Row(S.energy, r) = Jonswap(S.f, call.raw, call.Hm0, call.normalize)
        /\ \A i \in 1..Len(S.spreading.data) :
              /\ S.spreading.data[i] = Q(call.ms)
              /\ S.direction.data[i] = Q(call.pdir)

\* The container but for the fields from_jonswap assigns.
Unassigned(c) ==
    IF c.cls = "Spec1"
    THEN [c EXCEPT !.energy = None, !.energy_units = "", !.direction = None,
                   !.spreading = None]
    ELSE [c EXCEPT !.energy = None, !.energy_units = ""]

\* C13: a reduction (Hm0 on any band, Tm01, Tm02, Tp, pdir) leaves every
\* field of the container as it was; from_jonswap changes at most energy,
\* energy_units and, for rank 1, direction and spreading, so the axes f, t,
\* x, lon and the rank-2 direction axis stay as constructed.
C13_Frame ==
    [][/\ call'.op \in {"Hm0", "Tm01", "Tm02", "Tp", "pdir"} => S' = S
       /\ call'.op = "from_jonswap" =>
             /\ Unassigned(S') = Unassigned(S)
             /\ S'.f = S.f /\ S'.t = S.t /\ S'.x = S.x /\ S'.lon = S.lon
             /\ S.cls = "Spec2" => S'.direction = S.direction]_vars

\* Tm01 has returned periods on a rank-1 container of two time steps that was
\* constructed without a units tag and then filled by from_jonswap.
C13_Witness ==
    /\ call.op = "Tm01" /\ ret.exc = "" /\ ret.value # None
    /\ S.cls = "Spec1" /\ ~kwUnits
    /\ S.energy_units = "m2/Hz"
    /\ Len(S.f) = 2 /\ Len(S.t) = 2
    /\ IsFinite(ret.value.data[1])

====
